---------------------------- MODULE Spec2Model ----------------------------
(***************************************************************************)
(* Cats Gallery (src/src/index.js): the filter-and-render engine, the      *)
(* debounced search path and the modal / lightbox controller with its      *)
(* navigation checkpoint, as one state machine.                            *)
(*                                                                         *)
(* Text is a sequence of one-character strings, so that toLowerCase, trim  *)
(* and includes are computed and not assumed.  A URL is a sequence of      *)
(* path tokens.  A missing (null / undefined) text or array field of a     *)
(* record is the empty sequence: the code reads every such field through   *)
(* `x || ''` or `x && Array.isArray(x) && ...`, which treat both alike.    *)
(***************************************************************************)
EXTENDS Integers, Sequences, FiniteSets, TLC

VARIABLES
    \* ---- module state of index.js (lines 12-16) and the DOM it writes
    allCats,              \* let allCats = []
    allCategoriesWithCounts, \* let allCategoriesWithCounts = []: [name, count] entries
    categoryFilters,      \* #categoryFilters: [state, names], the checklist shown
    categorySearchReady,  \* the 'input' listener of setupCategorySearchListener is installed
    recentCats,           \* #recentCats and its section: [html, cards, display]
    popularCats,          \* #popularCats and its section: [html, cards, display]
    selectedCategories,   \* let selectedCategories = new Set()
    currentViewMode,      \* 'batch' | 'individual'
    searchInput,          \* searchInput.value
    fetchState,           \* "pending" | "ok" | "failed": db.selectAll()
    ready,                \* the listeners of lines 34-37 are installed
    debounceTimer,        \* the handle in debounceTimer names a live timer
    liveTimers,           \* timers started by setTimeout(filterCats, 300) and not yet fired or cleared
    shownCats,            \* the list last handed to renderCats
    catsGrid,             \* #catsGrid: [state, cards], a card being <<record id, media index>>
    catCount,             \* catCount.textContent as [n, noun]
    \* ---- modal controller
    modalActive,          \* catModal.classList.contains('active')
    modalBody,            \* what modalBody shows (NoModal before the first open)
    modalMainMedia,       \* the #modalMainMedia element
    bodyOverflow,         \* document.body.style.overflow
    historyEntries,       \* the session history: the state object of each entry
    historyIndex,         \* the current entry (1-based); 0: the page was left
    pendingBack,          \* history.back() calls whose traversal is not yet delivered
    \* ---- setupSwipeToClose closure
    startX, startY, tracking,
    \* ---- observation only
    openedAt,             \* history position at the last Closed-to-Open transition
    event                 \* the handler that ran last: [name, a, b], a and b as the handler says

filterVars == <<selectedCategories, currentViewMode, searchInput, debounceTimer,
                liveTimers, shownCats, catsGrid, catCount>>
loadVars   == <<allCats, allCategoriesWithCounts, categoryFilters,
                categorySearchReady, recentCats, popularCats, fetchState, ready>>
modalVars  == <<modalActive, modalBody, modalMainMedia, bodyOverflow>>
histVars   == <<historyEntries, historyIndex, pendingBack, openedAt>>
swipeVars  == <<startX, startY, tracking>>
vars == <<loadVars, filterVars, modalVars, histVars, swipeVars, event>>

---------------------------------------------------------------------------
(* Bounds of the model *)

\* longest record list drawn for the filter engine
MaxCats == 3
\* entries the session history may hold
MaxHistory == 4
\* history.back() traversals outstanding beyond which no modal is opened
MaxPending == 2
\* window.innerWidth, in the same unit as the touch coordinates
InnerWidth == 10
\* largest horizontal touch coordinate
MaxCoord == 4
\* largest vertical touch coordinate
MaxCoordY == 3
\* the day on which the page is loaded
Today == 10
\* longest legacy image_urls list drawn for the media resolver
MaxUrls == 2

---------------------------------------------------------------------------
(* Text *)

ToLowerChar(c) ==
    CASE c = "A" -> "a"
      [] c = "B" -> "b"
      [] c = ".MP4" -> ".mp4"
      [] c = "/VIDEO/" -> "/video/"
      [] OTHER -> c

ToLowerCase(s) == [i \in DOMAIN s |-> ToLowerChar(s[i])]

RECURSIVE TrimStart(_)
TrimStart(s) ==
    IF s # <<>> /\ Head(s) = " " THEN TrimStart(Tail(s)) ELSE s

RECURSIVE TrimEnd(_)
TrimEnd(s) ==
    IF s # <<>> /\ s[Len(s)] = " " THEN TrimEnd(SubSeq(s, 1, Len(s) - 1)) ELSE s

Trim(s) == TrimEnd(TrimStart(s))

\* String.prototype.includes: t occurs in s as a contiguous run
Includes(s, t) ==
    \E i \in 0..(Len(s) - Len(t)) : SubSeq(s, i + 1, i + Len(t)) = t

\* Array.prototype.includes
ArrayIncludes(arr, x) == \E i \in DOMAIN arr : arr[i] = x

\* a || b on text
OrElse(a, b) == IF a # <<>> THEN a ELSE b

---------------------------------------------------------------------------
(* Records *)

Item(url, type, title, description, categories) ==
    [url |-> url, type |-> type, title |-> title,
     description |-> description, categories |-> categories]

Cat(id, title, description, categories, image_data, image_urls) ==
    [id |-> id, title |-> title, description |-> description,
     categories |-> categories, image_data |-> image_data,
     image_urls |-> image_urls]

PlaceholderUrl == <<"placeholder">>

isVideoUrl(url) ==
    /\ url # <<>>
    /\ LET lower == ToLowerCase(url)
       IN  \/ ArrayIncludes(lower, ".mp4")
           \/ ArrayIncludes(lower, ".webm")
           \/ ArrayIncludes(lower, ".mov")
           \/ ArrayIncludes(lower, "/video/")

\* variant: the legacy list is looked at first
getCatMedia_LegacyFirst(cat) ==
    IF Len(cat.image_urls) > 0
    THEN [i \in DOMAIN cat.image_urls |->
            Item(cat.image_urls[i],
                 IF isVideoUrl(cat.image_urls[i]) THEN "video" ELSE "image",
                 <<>>, <<>>, <<>>)]
    ELSE cat.image_data

getCatMedia(cat) ==
    IF Len(cat.image_data) > 0 THEN cat.image_data
    ELSE IF Len(cat.image_urls) > 0
    THEN [i \in DOMAIN cat.image_urls |->
            Item(cat.image_urls[i],
                 IF isVideoUrl(cat.image_urls[i]) THEN "video" ELSE "image",
                 <<>>, <<>>, <<>>)]
    ELSE <<>>

---------------------------------------------------------------------------
(* Filter engine and renderer *)

SearchTerm(value) == Trim(ToLowerCase(value))

\* variant: any selected category suffices (OR instead of AND)
catHasCategories_Any(cat, selected) ==
    \E c \in selected : ArrayIncludes(cat.categories, c)

catHasCategories(cat, selected) ==
    \A c \in selected : ArrayIncludes(cat.categories, c)

imageHasCategories(cat, selected) ==
    \E i \in DOMAIN cat.image_data :
        \A c \in selected : ArrayIncludes(cat.image_data[i].categories, c)

imageMatch(cat, searchTerm) ==
    \E i \in DOMAIN cat.image_data :
        \/ Includes(ToLowerCase(cat.image_data[i].title), searchTerm)
        \/ Includes(ToLowerCase(cat.image_data[i].description), searchTerm)

\* variant: the record's description is not searched
textMatch_NoDescription(cat, searchTerm) ==
    \/ Includes(ToLowerCase(cat.title), searchTerm)
    \/ imageMatch(cat, searchTerm)

textMatch(cat, searchTerm) ==
    \/ Includes(ToLowerCase(cat.title), searchTerm)
    \/ Includes(ToLowerCase(cat.description), searchTerm)
    \/ imageMatch(cat, searchTerm)

filterByCategories(cats, selected) ==
    IF Cardinality(selected) > 0
    THEN LET keep(cat) == catHasCategories(cat, selected)
                          \/ imageHasCategories(cat, selected)
         IN  SelectSeq(cats, keep)
    ELSE cats

filterBySearch(cats, searchTerm) ==
    IF searchTerm # <<>>
    THEN LET keep(cat) == textMatch(cat, searchTerm)
         IN  SelectSeq(cats, keep)
    ELSE cats

\* the list filterCats hands to renderCats
filtered(cats, selected, value) ==
    filterBySearch(filterByCategories(cats, selected), SearchTerm(value))

\* individual mode: one card per media item of each record, in order
RECURSIVE individualCards(_)
individualCards(cats) ==
    IF cats = <<>> THEN <<>>
    ELSE LET media == getCatMedia(Head(cats))
         IN  [i \in DOMAIN media |-> <<Head(cats).id, i - 1>>]
             \o individualCards(Tail(cats))

batchCards(cats) == [i \in DOMAIN cats |-> <<cats[i].id, 0>>]

\* variant: the noun is always plural
countLabel_Plural(n, singular, plural) == [n |-> n, noun |-> plural]

countLabel(n, singular, plural) ==
    [n |-> n, noun |-> IF n # 1 THEN plural ELSE singular]

\* #catsGrid shows the no-data paragraph when there is nothing to show
gridOf(cards) ==
    [state |-> IF Len(cards) = 0 THEN "empty" ELSE "cards", cards |-> cards]

renderCats(cats, mode) ==
    IF mode = "batch"
    THEN [grid |-> gridOf(batchCards(cats)),
          count |-> countLabel(Len(cats), "cat", "cats")]
    ELSE LET cards == individualCards(cats)
         IN  [grid |-> gridOf(cards),
              count |-> countLabel(Len(cards), "photo", "photos")]

---------------------------------------------------------------------------
(* Category index and shelves *)

\* Array.prototype.sort on <<key, element>> pairs, ascending by key; the
\* sort is stable: an element goes after the earlier ones of equal key
RECURSIVE insertByKey(_, _)
insertByKey(sorted, p) ==
    IF sorted = <<>> THEN <<p>>
    ELSE IF Head(sorted)[1] <= p[1]
         THEN <<Head(sorted)>> \o insertByKey(Tail(sorted), p)
         ELSE <<p>> \o sorted

RECURSIVE sortByKey(_)
sortByKey(pairs) ==
    IF pairs = <<>> THEN <<>>
    ELSE insertByKey(sortByKey(SubSeq(pairs, 1, Len(pairs) - 1)), pairs[Len(pairs)])

\* the category names in the order the two forEach loops of loadCategories
\* meet them: a record's own categories, then those of each of its items
RECURSIVE itemTags(_)
itemTags(items) ==
    IF items = <<>> THEN <<>>
    ELSE Head(items).categories \o itemTags(Tail(items))

RECURSIVE categoryTags(_)
categoryTags(cats) ==
    IF cats = <<>> THEN <<>>
    ELSE Head(cats).categories \o itemTags(Head(cats).image_data)
         \o categoryTags(Tail(cats))

\* property names that are array indices (canonical numeric strings), with
\* their numeric value
ToIndex == [k \in {"2", "10"} |-> IF k = "2" THEN 2 ELSE 10]

\* the keys of a tag sequence in order of first insertion
RECURSIVE firstSeen(_)
firstSeen(tags) ==
    IF tags = <<>> THEN <<>>
    ELSE LET front == firstSeen(SubSeq(tags, 1, Len(tags) - 1))
             last == tags[Len(tags)]
         IN  IF ArrayIncludes(front, last) THEN front ELSE Append(front, last)

\* the key order of Object.entries(categoryCounts): array-index keys in
\* ascending numeric order, then the other keys in insertion order
objectKeys(tags) ==
    LET keys == firstSeen(tags)
        isIndex(k) == k \in DOMAIN ToIndex
        notIndex(k) == k \notin DOMAIN ToIndex
        indexKeys == SelectSeq(keys, isIndex)
        byValue == sortByKey([i \in DOMAIN indexKeys |->
                                <<ToIndex[indexKeys[i]], indexKeys[i]>>])
    IN  [i \in DOMAIN byValue |-> byValue[i][2]] \o SelectSeq(keys, notIndex)

\* categoryCounts[c]
countOf(tags, c) == Cardinality({i \in DOMAIN tags : tags[i] = c})

\* loadCategories: allCategoriesWithCounts
loadCategories(cats) ==
    LET tags == categoryTags(cats)
        keys == objectKeys(tags)
        byCount == sortByKey([i \in DOMAIN keys |->
                                <<0 - countOf(tags, keys[i]),
                                  [name |-> keys[i], count |-> countOf(tags, keys[i])]>>])
    IN  [i \in DOMAIN byCount |-> byCount[i][2]]

\* renderCategories: one checkbox per entry
renderCategories(categories) ==
    [state |-> "list", names |-> [i \in DOMAIN categories |-> categories[i].name]]

\* what loadCategories leaves in #categoryFilters: it returns before
\* renderCategories and setupCategorySearchListener when the index is empty
categoryFiltersOf(index) ==
    IF Len(index) = 0 THEN [state |-> "none", names |-> <<>>]
    ELSE renderCategories(index)

\* the texts typed into the category search box, already lower-cased and
\* trimmed, and the names each of them occurs in
CategoryTerms == {"", "u", "zz"}
nameIncludes(name, term) ==
    \/ term = ""
    \/ term = "u" /\ name \in {"cute", "fluffy"}

\* c.created_at && ...: a record without the field has no date
hasCreatedAt(cat) == "created_at" \in DOMAIN cat

\* c.is_featured === true
isFeatured(cat) == "is_featured" \in DOMAIN cat /\ cat.is_featured = TRUE

\* days of the Recent window: setDate(getDate() - 7)
Week == 7
\* slice(0, 8)
RecentCap == 8

\* a shelf: what its container shows and the display style of its section
\* ("default": as the document has it)
LoadingShelf == [html |-> "loading", cards |-> <<>>, display |-> "default"]
ErrorShelf   == [html |-> "error", cards |-> <<>>, display |-> "default"]

shelfOf(cats, shelf) ==
    IF Len(cats) = 0 THEN [shelf EXCEPT !.display = "none"]
    ELSE [html |-> "cards", cards |-> [i \in DOMAIN cats |-> cats[i].id],
          display |-> "block"]

\* variant: the shelf is not capped
renderRecentCats_NoCap(cats, now, shelf) ==
    LET within(c) == hasCreatedAt(c) /\ c.created_at >= now - Week
        recent == SelectSeq(cats, within)
        sorted == sortByKey([i \in DOMAIN recent |->
                                <<0 - recent[i].created_at, recent[i]>>])
    IN  shelfOf([i \in DOMAIN sorted |-> sorted[i][2]], shelf)

\* renderRecentCats at time `now` (in days)
renderRecentCats(cats, now, shelf) ==
    LET within(c) == hasCreatedAt(c) /\ c.created_at >= now - Week
        recent == SelectSeq(cats, within)
        sorted == sortByKey([i \in DOMAIN recent |->
                                <<0 - recent[i].created_at, recent[i]>>])
        newest == [i \in DOMAIN sorted |-> sorted[i][2]]
    IN  shelfOf(SubSeq(newest, 1, IF Len(newest) < RecentCap THEN Len(newest)
                                  ELSE RecentCap), shelf)

renderPopularCats(cats, shelf) ==
    shelfOf(SelectSeq(cats, isFeatured), shelf)

---------------------------------------------------------------------------
(* The records the store may return *)

ImgUrl  == <<"x", ".jpg">>
VidUrl  == <<"x", ".MP4">>
PathUrl == <<"/video/", "x">>

Cat1 == Cat(1, <<"A", "b">>, <<>>, <<"cute", "fluffy">>, <<>>, <<>>)
Cat2 == Cat(2, <<>>, <<"b", "a">>, <<"cute">>,
            <<Item(ImgUrl, "image", <<>>, <<>>, <<"fluffy">>)>>, <<>>)
Cat3 == Cat(3, <<>>, <<>>, <<>>,
            <<Item(ImgUrl, "image", <<"a", " ", "B">>, <<>>, <<"cute">>),
              Item(VidUrl, "video", <<>>, <<"b">>, <<"fluffy">>)>>, <<>>)
Cat4 == Cat(4, <<"b">>, <<>>, <<>>,
            <<Item(ImgUrl, "image", <<>>, <<"A">>, <<"fluffy", "cute">>)>>, <<>>)
Cat5 == Cat(5, <<"a">>, <<"a", "B">>, <<"fluffy">>, <<>>,
            <<ImgUrl, PathUrl, ImgUrl>>)
Cat6 == Cat(6, <<>>, <<>>, <<>>, <<>>, <<>>)

CatPool == {Cat1, Cat2, Cat3, Cat4, Cat5, Cat6}

\* record lists with distinct ids (id is the primary key), up to MaxCats long
RecordLists ==
    {s \in UNION {[1..n -> CatPool] : n \in 0..MaxCats} :
        \A i, j \in DOMAIN s : i # j => s[i].id # s[j].id}

\* legacy urls: plain image, upper-case video suffix, video path segment,
\* upper-case path segment with suffix, a video suffix in the middle of an
\* image's name, and the two other video suffixes
UpperUrl == <<"https://x", "/VIDEO/", "a", ".MP4">>
MidUrl   == <<"x", ".mp4", ".jpg">>
WebmUrl  == <<"x", ".webm">>
MovUrl   == <<"x", ".mov">>
MediaUrls == {ImgUrl, VidUrl, PathUrl, UpperUrl, MidUrl, WebmUrl, MovUrl}

\* structured media lists: none, one item, two items
MediaData ==
    {<<>>,
     <<Item(ImgUrl, "image", <<>>, <<>>, <<>>)>>,
     <<Item(VidUrl, "video", <<>>, <<>>, <<>>), Item(ImgUrl, "image", <<>>, <<>>, <<>>)>>}

\* records with every combination of structured and legacy media
MediaRecords ==
    {Cat(7, <<>>, <<>>, <<>>, d, u) :
        d \in MediaData,
        u \in UNION {[1..n -> MediaUrls] : n \in 0..MaxUrls}}

\* records whose tags include names that are array indices
Cat8 == Cat(8, <<>>, <<>>, <<"fluffy", "10">>, <<>>, <<>>)
Cat9 == Cat(9, <<>>, <<>>, <<"2", "cute">>,
            <<Item(ImgUrl, "image", <<>>, <<>>, <<"2", "10">>)>>, <<>>)

TagPool == {Cat1, Cat2, Cat3, Cat6, Cat8, Cat9}

\* record lists for the category index, with distinct ids
TagLists ==
    {s \in UNION {[1..n -> TagPool] : n \in 0..MaxCats} :
        \A i, j \in DOMAIN s : i # j => s[i].id # s[j].id}

\* a record with a creation day and a featured flag
ShelfCat(id, title, categories, created_at, is_featured) ==
    [id |-> id, title |-> title, description |-> <<>>,
     categories |-> categories, image_data |-> <<>>, image_urls |-> <<>>,
     created_at |-> created_at, is_featured |-> is_featured]

\* twelve records: ten inside the Recent window of Today (one exactly a
\* week old, two pairs of equal age), one older, one without a date
Roster ==
    <<ShelfCat(11, <<"a">>, <<"cute">>, Today - 5, TRUE),
      ShelfCat(12, <<"b">>, <<>>, Today, FALSE),
      ShelfCat(13, <<>>, <<>>, Today - Week, TRUE),
      ShelfCat(14, <<"a">>, <<>>, Today - Week - 1, TRUE),
      ShelfCat(15, <<"b">>, <<"cute">>, Today - 1, FALSE),
      ShelfCat(16, <<"a">>, <<>>, Today - 1, FALSE),
      ShelfCat(17, <<>>, <<>>, Today - 6, FALSE),
      ShelfCat(18, <<"b">>, <<>>, Today - 2, TRUE),
      Cat(19, <<"a">>, <<>>, <<>>, <<>>, <<>>),
      ShelfCat(20, <<"a">>, <<>>, Today - 6, FALSE),
      ShelfCat(21, <<"b">>, <<>>, Today - 3, FALSE),
      ShelfCat(22, <<>>, <<>>, Today - 4, FALSE)>>

Reverse(seq) == [i \in DOMAIN seq |-> seq[Len(seq) + 1 - i]]

\* the roster, in either order, with at most one record left out, or with
\* at most two records kept
ShelfLists ==
    {LET keep(c) == c.id \in K IN SelectSeq(r, keep) :
        r \in {Roster, Reverse(Roster)},
        K \in {K \in SUBSET {Roster[i].id : i \in DOMAIN Roster} :
                  \/ Cardinality(K) <= 2
                  \/ Cardinality(K) >= Len(Roster) - 1}}

\* what db.selectAll() may resolve to during a page session
StoreResults == {<<Cat3, Cat5>>, <<Cat4>>}

SearchTexts == {<<>>, <<"a">>, <<"A", "B">>, <<" ", "b", " ">>, <<" ">>,
                <<"a", " ", "b">>}

\* a record id no record carries
MissingId == 0

Ids(cats) == {cats[i].id : i \in DOMAIN cats}

\* allCats.find(c => c.id === catId), for an id that is present
findCat(cats, catId) ==
    cats[CHOOSE i \in DOMAIN cats :
            /\ cats[i].id = catId
            /\ \A j \in DOMAIN cats : cats[j].id = catId => i <= j]

\* the names the category checklist offers: record-level and item-level tags
categoryNames(cats) ==
    UNION {{cats[i].categories[k] : k \in DOMAIN cats[i].categories}
             : i \in DOMAIN cats}
    \cup UNION {UNION {{cats[i].image_data[m].categories[k]
                          : k \in DOMAIN cats[i].image_data[m].categories}
                        : m \in DOMAIN cats[i].image_data}
                 : i \in DOMAIN cats}

---------------------------------------------------------------------------
(* Initial state: DOMContentLoaded, db.selectAll() in flight *)

Ev(name, a, b) == [name |-> name, a |-> a, b |-> b]
Bit(p) == IF p THEN 1 ELSE 0

NoModal == [catId |-> MissingId, thumbs |-> 0, active |-> -1, title |-> <<>>,
            hasDesc |-> FALSE, desc |-> <<>>, descShown |-> FALSE]
NoMedia == [tag |-> "none", src |-> <<>>, muted |-> FALSE, paused |-> FALSE]
CuteCat == <<"Cute Cat">>

InitModal ==
    /\ modalActive = FALSE
    /\ modalBody = NoModal
    /\ modalMainMedia = NoMedia
    /\ bodyOverflow = ""
    /\ historyEntries = <<"null">>
    /\ historyIndex = 1
    /\ pendingBack = 0
    /\ openedAt = 1
    /\ startX = 0 /\ startY = 0 /\ tracking = FALSE

Init ==
    /\ allCats = <<>>
    /\ allCategoriesWithCounts = <<>>
    /\ categoryFilters = [state |-> "default", names |-> <<>>]
    /\ categorySearchReady = FALSE
    /\ recentCats = LoadingShelf
    /\ popularCats = LoadingShelf
    /\ fetchState = "pending"
    /\ ready = FALSE
    /\ selectedCategories = {}
    /\ currentViewMode = "batch"
    /\ searchInput = <<>>
    /\ debounceTimer = FALSE
    /\ liveTimers = 0
    /\ shownCats = <<>>
    /\ catsGrid = [state |-> "loading", cards |-> <<>>]
    /\ catCount = [n |-> 0, noun |-> ""]
    /\ InitModal
    /\ event = Ev("DOMContentLoaded", 0, 0)

\* the page is still the current document
OnPage == historyIndex >= 1

---------------------------------------------------------------------------
(* Loading *)

\* loadCats resolves, then loadCategories and the four setup calls run
\* before any other event is handled
FetchOk(data) ==
    /\ OnPage /\ fetchState = "pending"
    /\ allCats' = data
    /\ recentCats' = renderRecentCats(data, Today, recentCats)
    /\ popularCats' = renderPopularCats(data, popularCats)
    /\ allCategoriesWithCounts' = loadCategories(data)
    /\ categoryFilters' = categoryFiltersOf(loadCategories(data))
    /\ categorySearchReady' = (Len(loadCategories(data)) > 0)
    /\ fetchState' = "ok"
    /\ ready' = TRUE
    /\ LET r == renderCats(data, currentViewMode)
       IN  /\ shownCats' = data
           /\ catsGrid' = r.grid
           /\ catCount' = r.count
    /\ event' = Ev("fetchOk", 0, 0)
    /\ UNCHANGED <<selectedCategories, currentViewMode, searchInput,
                   debounceTimer, liveTimers, modalVars, histVars, swipeVars>>

\* variant: the rejection is not caught and the DOMContentLoaded handler
\* stops before loadCategories and the four setup calls
FetchFail_Uncaught ==
    /\ OnPage /\ fetchState = "pending"
    /\ fetchState' = "failed"
    /\ event' = Ev("fetchFail", 0, 0)
    /\ UNCHANGED <<allCats, allCategoriesWithCounts, categoryFilters,
                   categorySearchReady, recentCats, popularCats, ready,
                   filterVars, modalVars, histVars, swipeVars>>

\* db.selectAll() rejects: the catch block of loadCats
FetchFail ==
    /\ OnPage /\ fetchState = "pending"
    /\ fetchState' = "failed"
    /\ ready' = TRUE
    /\ catsGrid' = [state |-> "error", cards |-> <<>>]
    /\ recentCats' = ErrorShelf
    /\ popularCats' = ErrorShelf
    /\ allCategoriesWithCounts' = loadCategories(allCats)
    /\ categoryFilters' = categoryFiltersOf(loadCategories(allCats))
    /\ categorySearchReady' = (Len(loadCategories(allCats)) > 0)
    /\ event' = Ev("fetchFail", 0, 0)
    /\ UNCHANGED <<allCats, selectedCategories, currentViewMode, searchInput,
                   debounceTimer, liveTimers, shownCats, catCount,
                   modalVars, histVars, swipeVars>>

---------------------------------------------------------------------------
(* Filter handlers *)

\* filterCats() run with the given state of the inputs
filterCats(selected, value, mode) ==
    LET f == filtered(allCats, selected, value)
        r == renderCats(f, mode)
    IN  /\ shownCats' = f
        /\ catsGrid' = r.grid
        /\ catCount' = r.count

\* variant: the pending timer is not cleared before the new one is set
SearchInputEvent_NoClear(text) ==
    /\ OnPage /\ text # searchInput
    /\ searchInput' = text
    /\ IF ready
       THEN /\ liveTimers' = liveTimers + 1
            /\ debounceTimer' = TRUE
       ELSE UNCHANGED <<liveTimers, debounceTimer>>
    /\ event' = Ev("input", 0, 0)
    /\ UNCHANGED <<loadVars, selectedCategories, currentViewMode, shownCats,
                   catsGrid, catCount, modalVars, histVars, swipeVars>>

\* text typed into the category search box: the 'input' listener of
\* setupCategorySearchListener, if it is installed; a: 1 if it ran
categorySearchInputEvent(term) ==
    /\ OnPage
    /\ IF categorySearchReady
       THEN LET keep(e) == nameIncludes(e.name, term)
                shown == SelectSeq(allCategoriesWithCounts, keep)
            IN  categoryFilters' =
                    IF term = "" THEN renderCategories(allCategoriesWithCounts)
                    ELSE IF Len(shown) = 0 THEN [state |-> "noMatch", names |-> <<>>]
                    ELSE renderCategories(shown)
       ELSE UNCHANGED categoryFilters
    /\ event' = Ev("categorySearch", Bit(categorySearchReady), 0)
    /\ UNCHANGED <<allCats, allCategoriesWithCounts, categorySearchReady,
                   recentCats, popularCats, fetchState, ready,
                   filterVars, modalVars, histVars, swipeVars>>

\* the 'input' listener of setupSearchListener; before the listener is
\* installed the text changes and nothing else does
SearchInputEvent(text) ==
    /\ OnPage /\ text # searchInput
    /\ searchInput' = text
    /\ IF ready
       THEN /\ liveTimers' = liveTimers - (IF debounceTimer THEN 1 ELSE 0) + 1
            /\ debounceTimer' = TRUE
       ELSE UNCHANGED <<liveTimers, debounceTimer>>
    /\ event' = Ev("input", 0, 0)
    /\ UNCHANGED <<loadVars, selectedCategories, currentViewMode, shownCats,
                   catsGrid, catCount, modalVars, histVars, swipeVars>>

\* a timer set at line 275 fires: () => filterCats()
DebounceFire ==
    /\ OnPage /\ liveTimers > 0
    /\ liveTimers' = liveTimers - 1
    /\ debounceTimer' = (liveTimers - 1 > 0)
    /\ filterCats(selectedCategories, searchInput, currentViewMode)
    /\ event' = Ev("timer", 0, 0)
    /\ UNCHANGED <<loadVars, selectedCategories, currentViewMode, searchInput,
                   modalVars, histVars, swipeVars>>

\* handleCategoryChange: the checkbox of category c was toggled
handleCategoryChange(c) ==
    /\ OnPage /\ c \in categoryNames(allCats)
    /\ selectedCategories' = IF c \in selectedCategories
                              THEN selectedCategories \ {c}
                              ELSE selectedCategories \cup {c}
    /\ filterCats(selectedCategories', searchInput, currentViewMode)
    /\ event' = Ev("category", 0, 0)
    /\ UNCHANGED <<loadVars, currentViewMode, searchInput, debounceTimer,
                   liveTimers, modalVars, histVars, swipeVars>>

\* variant: the filtered list is stored back into allCats
switchViewMode_StoresFiltered(mode) ==
    /\ OnPage /\ mode # currentViewMode
    /\ currentViewMode' = mode
    /\ filterCats(selectedCategories, searchInput, mode)
    /\ allCats' = filtered(allCats, selectedCategories, searchInput)
    /\ event' = Ev("viewMode", 0, 0)
    /\ UNCHANGED <<allCategoriesWithCounts, categoryFilters, categorySearchReady,
                   recentCats, popularCats, fetchState, ready,
                   selectedCategories, searchInput, debounceTimer,
                   liveTimers, modalVars, histVars, swipeVars>>

\* window.switchViewMode, from the view-mode radio buttons
switchViewMode(mode) ==
    /\ OnPage /\ mode # currentViewMode
    /\ currentViewMode' = mode
    /\ filterCats(selectedCategories, searchInput, mode)
    /\ event' = Ev("viewMode", 0, 0)
    /\ UNCHANGED <<loadVars, selectedCategories, searchInput, debounceTimer,
                   liveTimers, modalVars, histVars, swipeVars>>

---------------------------------------------------------------------------
(* Modal controller *)

\* m.type === 'video' || isVideoUrl(m.url)
isVideoItem(m) == m.type = "video" \/ isVideoUrl(m.url)

PlaceholderItem == Item(PlaceholderUrl, "image", <<>>, <<>>, <<>>)

\* media[startIndex] || media[0] || placeholder
currentMediaOf(media, startIndex) ==
    IF startIndex + 1 \in DOMAIN media THEN media[startIndex + 1]
    ELSE IF Len(media) > 0 THEN media[1]
    ELSE PlaceholderItem

\* a freshly created main media element; a video is unmuted and playing
mediaElement(url, isVideo) ==
    IF isVideo
    THEN [tag |-> "VIDEO", src |-> url, muted |-> FALSE, paused |-> FALSE]
    ELSE [tag |-> "IMG", src |-> url, muted |-> FALSE, paused |-> FALSE]

\* history.pushState({ modalOpen: true }, ...): entries after the current
\* one are dropped and the new entry becomes current
pushState ==
    /\ historyEntries' = Append(SubSeq(historyEntries, 1, historyIndex), "modalOpen")
    /\ historyIndex' = historyIndex + 1

\* openCatModal for a record that exists
openFound(cat, startIndex) ==
    LET media == getCatMedia(cat)
        currentMedia == currentMediaOf(media, startIndex)
        displayTitle == OrElse(currentMedia.title, cat.title)
        displayDesc == OrElse(currentMedia.description, cat.description)
    IN  /\ Len(historyEntries) < MaxHistory /\ pendingBack < MaxPending
        /\ modalBody' = [catId |-> cat.id,
                         thumbs |-> IF Len(media) > 1 THEN Len(media) ELSE 0,
                         active |-> IF Len(media) > 1 /\ startIndex + 1 \in DOMAIN media
                                    THEN startIndex ELSE -1,
                         title |-> OrElse(displayTitle, CuteCat),
                         hasDesc |-> displayDesc # <<>>,
                         desc |-> displayDesc,
                         descShown |-> displayDesc # <<>>]
        /\ modalMainMedia' = mediaElement(currentMedia.url, isVideoItem(currentMedia))
        /\ modalActive' = TRUE
        /\ bodyOverflow' = "hidden"
        /\ pushState
        /\ openedAt' = IF modalActive THEN openedAt ELSE historyIndex
        /\ UNCHANGED pendingBack

\* index of the last media item (0 for a record without media: its card
\* shows the placeholder)
lastIndex(media) == IF Len(media) > 0 THEN Len(media) - 1 ELSE 0

\* variant: the `if (!cat) return` guard is missing and an absent record
\* is shown as an empty one
openCatModal_NoFind(catId, startIndex) ==
    /\ OnPage
    /\ openFound(IF catId \in Ids(allCats) THEN findCat(allCats, catId)
                 ELSE Cat(catId, <<>>, <<>>, <<>>, <<>>, <<>>), startIndex)
    /\ event' = Ev("openCatModal", catId, startIndex)
    /\ UNCHANGED <<loadVars, filterVars, swipeVars>>

\* window.openCatModal(catId, startIndex)
openCatModal(catId, startIndex) ==
    /\ OnPage
    /\ IF catId \in Ids(allCats)
       THEN openFound(findCat(allCats, catId), startIndex)
       ELSE UNCHANGED <<modalVars, histVars>>
    /\ event' = Ev("openCatModal", catId, startIndex)
    /\ UNCHANGED <<loadVars, filterVars, swipeVars>>

\* the (id, index) pairs openCatModal is called with: a card of the grid
\* or of a shelf, or an id no record has
OpenRequests ==
    UNION {{<<allCats[i].id, k>> : k \in 0..lastIndex(getCatMedia(allCats[i]))}
             : i \in DOMAIN allCats}
    \cup {<<MissingId, 0>>}

\* window.changeModalMedia, from thumbnail imgIndex of the open record
changeModalMedia(imgIndex) ==
    /\ OnPage /\ modalActive
    /\ modalBody.thumbs > 1 /\ imgIndex \in 0..(modalBody.thumbs - 1)
    /\ LET cat == findCat(allCats, modalBody.catId)
           media == getCatMedia(cat)
           imgData == media[imgIndex + 1]
           displayTitle == OrElse(imgData.title, cat.title)
           displayDesc == OrElse(imgData.description, cat.description)
       IN  /\ modalBody' = [modalBody EXCEPT
                               !.active = imgIndex,
                               !.title = OrElse(displayTitle, CuteCat),
                               !.desc = IF modalBody.hasDesc THEN displayDesc ELSE @,
                               !.descShown = IF modalBody.hasDesc
                                             THEN displayDesc # <<>> ELSE @]
           /\ modalMainMedia' = mediaElement(imgData.url, isVideoItem(imgData))
    /\ event' = Ev("changeModalMedia", imgIndex, 0)
    /\ UNCHANGED <<modalActive, bodyOverflow, histVars, loadVars, filterVars,
                   swipeVars>>

\* closeModal past its two guards, with history.state read at entry `at`
\* and `pend` traversals already outstanding
closeEffects(at, pend) ==
    /\ modalMainMedia' = IF modalMainMedia.tag = "VIDEO"
                          THEN [modalMainMedia EXCEPT !.muted = TRUE, !.paused = TRUE]
                          ELSE modalMainMedia
    /\ modalActive' = FALSE
    /\ bodyOverflow' = ""
    /\ pendingBack' = IF historyEntries[at] = "modalOpen" THEN pend + 1 ELSE pend
    /\ UNCHANGED modalBody

\* variant: the `classList.contains('active')` guard is missing
closeModal_NoActiveGuard(hasEvent, onModal) ==
    IF hasEvent /\ ~onModal THEN UNCHANGED <<modalVars, histVars>>
    ELSE /\ closeEffects(historyIndex, pendingBack)
         /\ UNCHANGED <<historyEntries, historyIndex, openedAt>>

\* window.closeModal(event): hasEvent says an event object was passed,
\* onModal that event.target is catModal itself
closeModal(hasEvent, onModal) ==
    IF hasEvent /\ ~onModal THEN UNCHANGED <<modalVars, histVars>>
    ELSE IF ~modalActive THEN UNCHANGED <<modalVars, histVars>>
    ELSE /\ closeEffects(historyIndex, pendingBack)
         /\ UNCHANGED <<historyEntries, historyIndex, openedAt>>

\* the close control: closeModal(); a: the modal was open
CloseControl ==
    /\ OnPage
    /\ closeModal(FALSE, FALSE)
    /\ event' = Ev("closeControl", Bit(modalActive), 0)
    /\ UNCHANGED <<loadVars, filterVars, swipeVars>>

\* a click inside the modal element: closeModal(event); b: the target is
\* the backdrop (catModal) itself
ModalClick(onModal) ==
    /\ OnPage /\ modalActive
    /\ closeModal(TRUE, onModal)
    /\ event' = Ev("modalClick", 1, Bit(onModal))
    /\ UNCHANGED <<loadVars, filterVars, swipeVars>>

\* the keydown listener, for the Escape key; a: the modal was open
KeydownEscape ==
    /\ OnPage /\ ready
    /\ IF modalActive THEN closeModal(FALSE, FALSE)
       ELSE UNCHANGED <<modalVars, histVars>>
    /\ event' = Ev("escape", Bit(modalActive), 0)
    /\ UNCHANGED <<loadVars, filterVars, swipeVars>>

---------------------------------------------------------------------------
(* Swipe to close *)

Abs(x) == IF x < 0 THEN -x ELSE x

\* variant: a displacement of exactly 20% of the width already closes
swipeCloses_AtThreshold(dx, dy) ==
    /\ 2 * Abs(dx) > 3 * Abs(dy)
    /\ 5 * dx >= InnerWidth

\* Math.abs(dx) > Math.abs(dy) * 1.5 && dx > window.innerWidth * 0.20,
\* in integers
swipeCloses(dx, dy) ==
    /\ 2 * Abs(dx) > 3 * Abs(dy)
    /\ 5 * dx > InnerWidth

\* where a touch may start and where it may end
StartPoints == {<<0, 0>>, <<MaxCoord, 0>>, <<0, MaxCoordY>>}
EndPoints == (0..MaxCoord) \X (0..MaxCoordY)

\* touchstart on the modal with n touches, the first at (x, y)
TouchStart(n, x, y) ==
    /\ OnPage /\ ready /\ modalActive
    /\ IF n # 1 THEN UNCHANGED swipeVars
       ELSE /\ startX' = x
            /\ startY' = y
            /\ tracking' = TRUE
    /\ event' = Ev("touchstart", n, 0)
    /\ UNCHANGED <<loadVars, filterVars, modalVars, histVars>>

\* touchend on the modal, the lifted touch at (x, y); a: a tracked touch
\* ended, b: the modal was closed by it
TouchEnd(x, y) ==
    /\ OnPage /\ ready /\ modalActive
    /\ IF ~tracking THEN UNCHANGED <<swipeVars, modalVars, histVars>>
       ELSE /\ tracking' = FALSE
            /\ UNCHANGED <<startX, startY>>
            /\ IF swipeCloses(x - startX, y - startY)
               THEN closeModal(FALSE, FALSE)
               ELSE UNCHANGED <<modalVars, histVars>>
    /\ event' = Ev("touchend", Bit(tracking),
                   Bit(tracking /\ swipeCloses(x - startX, y - startY)))
    /\ UNCHANGED <<loadVars, filterVars>>

---------------------------------------------------------------------------
(* Session history traversal *)

\* the history moves one entry back; if the page is still current the
\* popstate listener of setupBackButtonHandler runs, with `pend`
\* traversals outstanding
traverseBack(pend) ==
    /\ historyIndex' = historyIndex - 1
    /\ UNCHANGED <<historyEntries, openedAt>>
    /\ IF historyIndex - 1 >= 1 /\ ready /\ modalActive
       THEN closeEffects(historyIndex - 1, pend)
       ELSE /\ pendingBack' = pend
            /\ UNCHANGED modalVars

\* the platform's back navigation, on an entry this page pushed; a: the
\* modal was open
PlatformBack ==
    /\ OnPage /\ historyIndex > 1
    /\ traverseBack(pendingBack)
    /\ event' = Ev("platformBack", Bit(modalActive), 0)
    /\ UNCHANGED <<loadVars, filterVars, swipeVars>>

\* the traversal of an earlier history.back() is carried out; a: the modal
\* was open
DeliverBack ==
    /\ OnPage /\ pendingBack > 0
    /\ traverseBack(pendingBack - 1)
    /\ event' = Ev("historyBack", Bit(modalActive), 0)
    /\ UNCHANGED <<loadVars, filterVars, swipeVars>>

---------------------------------------------------------------------------
(* The page *)

ViewModes == {"batch", "individual"}

\* what the user types into the search box during a page session
PageTexts == {<<>>, <<"a">>}

LoadStep ==
    \/ \E data \in StoreResults : FetchOk(data)
    \/ FetchFail

FilterStep(texts) ==
    \/ \E text \in texts : SearchInputEvent(text)
    \/ DebounceFire
    \/ \E c \in categoryNames(allCats) : handleCategoryChange(c)
    \/ \E mode \in ViewModes : switchViewMode(mode)

ModalStep ==
    \/ \E r \in OpenRequests : openCatModal(r[1], r[2])
    \/ \E i \in 0..(modalBody.thumbs - 1) : changeModalMedia(i)
    \/ CloseControl
    \/ \E onModal \in BOOLEAN : ModalClick(onModal)
    \/ KeydownEscape
    \/ \E n \in {1, 2}, p \in StartPoints : TouchStart(n, p[1], p[2])
    \/ \E p \in EndPoints : TouchEnd(p[1], p[2])
    \/ PlatformBack
    \/ DeliverBack

Next == LoadStep \/ FilterStep(PageTexts) \/ ModalStep

Spec == Init /\ [][Next]_vars

---------------------------------------------------------------------------
(* The filter engine on its own: the page just after loadCats resolved    *)
(* with any record list, driven by the search box, the category checklist *)
(* and the view-mode switch                                               *)

InitFilter ==
    /\ allCats \in RecordLists
    /\ allCategoriesWithCounts = loadCategories(allCats)
    /\ categoryFilters = categoryFiltersOf(allCategoriesWithCounts)
    /\ categorySearchReady = (Len(allCategoriesWithCounts) > 0)
    /\ recentCats = renderRecentCats(allCats, Today, LoadingShelf)
    /\ popularCats = renderPopularCats(allCats, LoadingShelf)
    /\ fetchState = "ok"
    /\ ready = TRUE
    /\ selectedCategories = {}
    /\ currentViewMode = "batch"
    /\ searchInput = <<>>
    /\ debounceTimer = FALSE
    /\ liveTimers = 0
    /\ shownCats = allCats
    /\ catsGrid = renderCats(allCats, "batch").grid
    /\ catCount = renderCats(allCats, "batch").count
    /\ InitModal
    /\ event = Ev("fetchOk", 0, 0)

NextFilter == FilterStep(SearchTexts)

SpecFilter == InitFilter /\ [][NextFilter]_vars

---------------------------------------------------------------------------
(* The media resolver: the page just after loadCats resolved with one     *)
(* record of any media shape, whose media the modal then shows            *)

InitMedia ==
    /\ \E r \in MediaRecords : allCats = <<r>>
    /\ allCategoriesWithCounts = loadCategories(allCats)
    /\ categoryFilters = categoryFiltersOf(allCategoriesWithCounts)
    /\ categorySearchReady = (Len(allCategoriesWithCounts) > 0)
    /\ recentCats = renderRecentCats(allCats, Today, LoadingShelf)
    /\ popularCats = renderPopularCats(allCats, LoadingShelf)
    /\ fetchState = "ok"
    /\ ready = TRUE
    /\ selectedCategories = {}
    /\ currentViewMode = "batch"
    /\ searchInput = <<>>
    /\ debounceTimer = FALSE
    /\ liveTimers = 0
    /\ shownCats = allCats
    /\ catsGrid = renderCats(allCats, "batch").grid
    /\ catCount = renderCats(allCats, "batch").count
    /\ InitModal
    /\ event = Ev("fetchOk", 0, 0)

NextMedia ==
    \/ \E r \in OpenRequests : openCatModal(r[1], r[2])
    \/ \E i \in 0..(modalBody.thumbs - 1) : changeModalMedia(i)
    \/ CloseControl
    \/ DeliverBack

SpecMedia == InitMedia /\ [][NextMedia]_vars

---------------------------------------------------------------------------
(* Page load on its own: DOMContentLoaded, then loadCats resolves with    *)
(* any record list or rejects, and loadCategories builds the index        *)

LoadResults == TagLists

NextLoad ==
    \/ \E data \in LoadResults : FetchOk(data)
    \/ FetchFail

SpecLoad == Init /\ [][NextLoad]_vars

---------------------------------------------------------------------------
(* The shelves: page load with dated and featured records, then the       *)
(* search box, the category checklist and the view-mode switch            *)

NextShelves ==
    \/ \E data \in ShelfLists : FetchOk(data)
    \/ FilterStep(PageTexts)

SpecShelves == Init /\ [][NextShelves]_vars

---------------------------------------------------------------------------
(* A page session without the modal: load, search box, checklist,         *)
(* view-mode switch and category search box                               *)

NextSession ==
    \/ LoadStep
    \/ FilterStep(SearchTexts)
    \/ \E term \in CategoryTerms : categorySearchInputEvent(term)

SpecSession == Init /\ [][NextSession]_vars

---------------------------------------------------------------------------
(* A page session with the modal opened from the cards, moved between     *)
(* thumbnails and closed by its close control                             *)

NextPage ==
    \/ LoadStep
    \/ FilterStep(PageTexts)
    \/ \E term \in CategoryTerms : categorySearchInputEvent(term)
    \/ \E r \in OpenRequests : openCatModal(r[1], r[2])
    \/ \E i \in 0..(modalBody.thumbs - 1) : changeModalMedia(i)
    \/ CloseControl
    \/ DeliverBack

SpecPage == Init /\ [][NextPage]_vars

---------------------------------------------------------------------------
(* The modal controller on its own: the page from DOMContentLoaded, with  *)
(* the search box, the checklist and the view-mode switch left alone      *)

NextModal == LoadStep \/ ModalStep

SpecModal == Init /\ [][NextModal]_vars

---------------------------------------------------------------------------
(* Claims about the filter engine and the renderer, under SpecFilter *)

Range(seq) == {seq[i] : i \in DOMAIN seq}

\* some one categories list of the record, its own or a single media
\* item's, holds every selected category
HoldsAllSelected(cat, selected) ==
    \/ selected \subseteq Range(cat.categories)
    \/ \E m \in Range(getCatMedia(cat)) : selected \subseteq Range(m.categories)

\* the folded term occurs in the record's title or description, or in a
\* media item's title or description
TermOccurs(cat, term) ==
    \/ Includes(ToLowerCase(cat.title), term)
    \/ Includes(ToLowerCase(cat.description), term)
    \/ \E m \in Range(getCatMedia(cat)) :
          \/ Includes(ToLowerCase(m.title), term)
          \/ Includes(ToLowerCase(m.description), term)

\* the handler that ran last ended in filterCats()
FilterRan == event.name \in {"timer", "category", "viewMode"}

\* C1: with a non-empty selection, every record filterCats hands to the
\* renderer holds ALL selected categories in its own categories list or in
\* the categories list of one single media item (AND, never OR, never
\* pieced together from several lists).
C1_AndSemantics ==
    selectedCategories # {} =>
        \A i \in DOMAIN shownCats : HoldsAllSelected(shownCats[i], selectedCategories)

\* both categories selected; a record tagged with both on one item is
\* shown, records holding them only across lists are dropped
C1_Witness ==
    /\ event.name = "category"
    /\ selectedCategories = {"cute", "fluffy"}
    /\ allCats = <<Cat2, Cat4, Cat3>>
    /\ shownCats = <<Cat4>>

\* C2: the list filterCats hands to the renderer is exactly the
\* sub-sequence of allCats, order kept, of the records that pass the
\* category predicate and the text predicate (the folded, trimmed search
\* term occurs in the folded title or description of the record or of a
\* media item); with nothing selected and an empty term it is allCats.
C2_ExactSubsequence ==
    FilterRan =>
        LET term == Trim(ToLowerCase(searchInput))
            passes(cat) == HoldsAllSelected(cat, selectedCategories)
                           /\ TermOccurs(cat, term)
        IN  /\ shownCats = SelectSeq(allCats, passes)
            /\ (selectedCategories = {} /\ term = <<>>) => shownCats = allCats

\* a search fired with a category selected: two of three records are
\* kept, in their original order, one of them through its description
C2_Witness ==
    /\ event.name = "timer"
    /\ selectedCategories = {"fluffy"}
    /\ searchInput = <<"A", "B">>
    /\ allCats = <<Cat5, Cat4, Cat1>>
    /\ shownCats = <<Cat5, Cat1>>

\* C9: at most one debounce timer is pending; a keystroke leaves exactly
\* one pending timer and does not re-filter; the timer's firing is the one
\* re-filter, with the text as it then stands, and leaves no timer; a
\* category toggle re-filters in the same event and leaves the timer alone.
C9_Debounce ==
    /\ [](liveTimers <= 1)
    /\ [][/\ event'.name = "input" =>
               /\ liveTimers' = 1 /\ debounceTimer'
               /\ UNCHANGED <<shownCats, catsGrid, catCount>>
          /\ event'.name = "timer" =>
               /\ liveTimers' = 0 /\ liveTimers = 1
               /\ shownCats' = filtered(allCats, selectedCategories, searchInput')
          /\ event'.name = "category" =>
               /\ UNCHANGED <<liveTimers, debounceTimer, searchInput>>
               /\ shownCats' = filtered(allCats, selectedCategories', searchInput)
         ]_vars

\* a keystroke is pending: its timer is live and the grid still shows the
\* result for the earlier text
C9_Witness ==
    /\ event.name = "input"
    /\ liveTimers = 1 /\ debounceTimer
    /\ searchInput = <<"A", "B">>
    /\ shownCats # filtered(allCats, selectedCategories, searchInput)

RECURSIVE SumMedia(_)
SumMedia(cats) ==
    IF cats = <<>> THEN 0
    ELSE Len(getCatMedia(Head(cats))) + SumMedia(Tail(cats))

\* C10: after a view-mode switch the count label is that of the current
\* filtered subset: the number of records in grouped mode, the sum of the
\* resolved media-list lengths in per-item mode; singular noun exactly for 1.
C10_CountAfterSwitch ==
    event.name = "viewMode" =>
        LET f == filtered(allCats, selectedCategories, searchInput)
            n == IF currentViewMode = "batch" THEN Len(f) ELSE SumMedia(f)
        IN  /\ catCount.n = n
            /\ catCount.noun =
                 IF currentViewMode = "batch"
                 THEN (IF n = 1 THEN "cat" ELSE "cats")
                 ELSE (IF n = 1 THEN "photo" ELSE "photos")

\* three records with 1, 3 and 2 media items, switched to per-item mode:
\* "6 photos"
C10_Witness ==
    /\ event.name = "viewMode"
    /\ currentViewMode = "individual"
    /\ shownCats = <<Cat4, Cat5, Cat3>>
    /\ catCount = [n |-> 6, noun |-> "photos"]

---------------------------------------------------------------------------
(* Claims about the modal controller, under SpecModal *)

\* C3: openCatModal with an id no record carries changes nothing: the
\* modal stays as it was, no checkpoint is pushed, scrolling is not locked;
\* and the modal is open only on a record of the record set.
C3_UnknownIdNoOp ==
    /\ [][(event'.name = "openCatModal" /\ event'.a \notin Ids(allCats))
            => UNCHANGED <<modalVars, histVars>>]_vars
    /\ [](modalActive => modalBody.catId \in Ids(allCats))

\* records are loaded, openCatModal ran with the unknown id, and the page
\* is closed, unlocked and on its own history entry
C3_Witness ==
    /\ fetchState = "ok"
    /\ event = Ev("openCatModal", MissingId, 0)
    /\ ~modalActive /\ bodyOverflow = ""
    /\ historyEntries = <<"null">> /\ historyIndex = 1

\* the handler that ran last was a dismissal trigger that found the modal
\* open: the close control, a click on the backdrop itself, Escape, a
\* qualifying swipe, or the platform's back navigation
DismissedOpen ==
    \/ event.name \in {"closeControl", "escape", "platformBack"} /\ event.a = 1
    \/ event.name = "modalClick" /\ event.b = 1
    \/ event.name = "touchend" /\ event.b = 1

\* where the history stands once the outstanding history.back() calls
\* are carried out
SettledIndex == historyIndex - pendingBack

\* C4: each dismissal trigger taken while the modal is open closes it,
\* mutes and pauses an active video, restores scrolling and releases the
\* checkpoint, so that the history returns to the position it had before
\* the modal was opened.
C4_DismissalRestores ==
    DismissedOpen =>
        /\ ~modalActive
        /\ bodyOverflow = ""
        /\ modalMainMedia.tag = "VIDEO" => modalMainMedia.muted /\ modalMainMedia.paused
        /\ SettledIndex = openedAt

\* the rule as claimed: horizontal displacement above 20% of the width and
\* horizontal component at least 1.5 times the vertical one
C5_ClaimedRule(dx, dy) ==
    /\ 5 * dx > InnerWidth
    /\ 2 * Abs(dx) >= 3 * Abs(dy)

\* the rule as amended: the horizontal component strictly more than 1.5
\* times the vertical one
C5_AmendedRule(dx, dy) ==
    /\ 5 * dx > InnerWidth
    /\ 2 * Abs(dx) > 3 * Abs(dy)

\* C5 as stated: a tracked touch that ends on the open modal closes it
\* exactly when dx exceeds 20% of the viewport width and |dx| is at least
\* 1.5 times |dy|.
C5_Original ==
    [][\A p \in EndPoints :
          (tracking /\ TouchEnd(p[1], p[2])) =>
              (~modalActive' <=> C5_ClaimedRule(p[1] - startX, p[2] - startY))]_vars

\* C5 as amended: a tracked touch that ends on the open modal closes it
\* exactly when dx (rightward) exceeds 20% of the viewport width and |dx|
\* is strictly more than 1.5 times |dy|.
C5_SwipeRule ==
    [][\A p \in EndPoints :
          (tracking /\ TouchEnd(p[1], p[2])) =>
              (~modalActive' <=> C5_AmendedRule(p[1] - startX, p[2] - startY))]_vars

\* a swipe from the left edge closed the modal
C5_Witness ==
    /\ event = Ev("touchend", 1, 1)
    /\ startX = 0 /\ startY = 0 /\ ~tracking
    /\ ~modalActive /\ pendingBack = 1

\* C6: opening from Closed pushes one checkpoint, so that a platform back
\* navigation received while the modal is open closes it and leaves the
\* history at or above the gallery's own entry.
C6_BackStaysOnPage ==
    /\ (event.name = "openCatModal" /\ modalActive)
          => historyEntries[historyIndex] = "modalOpen"
    /\ (event.name = "platformBack" /\ event.a = 1)
          => ~modalActive /\ SettledIndex >= 1

\* the description the modal shows
shownDescription ==
    IF modalBody.hasDesc /\ modalBody.descShown THEN modalBody.desc ELSE <<>>

\* C7: selecting thumbnail idx' of the open record keeps the modal open on
\* that record, shows item idx' as main media with its title and
\* description (the item's, else the record's) and highlights its
\* thumbnail; history, scroll lock and record list are as before.
C7_ThumbnailSwap ==
    [][event'.name = "changeModalMedia" =>
         LET cat == findCat(allCats, modalBody.catId)
             item == getCatMedia(cat)[event'.a + 1]
         IN  /\ modalActive /\ modalActive'
             /\ modalBody'.catId = modalBody.catId
             /\ modalBody'.active = event'.a
             /\ modalMainMedia'.src = item.url
             /\ modalBody'.title = OrElse(OrElse(item.title, cat.title), CuteCat)
             /\ shownDescription' = OrElse(item.description, cat.description)
             /\ UNCHANGED <<historyEntries, historyIndex, pendingBack,
                            bodyOverflow, allCats, filterVars>>]_vars

\* C8: closeModal called while the modal is closed, or from a click whose
\* target is not the backdrop itself, changes nothing: modal, scroll lock,
\* video and history stay as they were and no history.back() is issued.
C8_CloseIdempotent ==
    [][(\/ event'.name = "closeControl" /\ event'.a = 0
        \/ event'.name = "modalClick" /\ event'.b = 0)
          => UNCHANGED <<modalVars, histVars>>]_vars

\* closeModal ran on the closed modal while the checkpoint of the earlier
\* close is still the current entry: no second history.back()
C8_Witness ==
    /\ event = Ev("closeControl", 0, 0)
    /\ ~modalActive
    /\ historyEntries[historyIndex] = "modalOpen"
    /\ pendingBack = 1

---------------------------------------------------------------------------
(* Claims about the media resolver, under SpecMedia *)

\* the urls of a media list, in order
UrlsOf(media) == [i \in DOMAIN media |-> media[i].url]

\* C11: getCatMedia returns the structured list unchanged when it has an
\* entry, otherwise one {url, type} entry per legacy url in the same order,
\* otherwise the empty sequence; the modal shows the item of that list it
\* was asked for, or the placeholder when the list is empty.
C11_MediaResolver ==
    /\ \A i \in DOMAIN allCats :
          LET cat == allCats[i]
              media == getCatMedia(cat)
          IN  /\ cat.image_data # <<>> => media = cat.image_data
              /\ cat.image_data = <<>> =>
                    /\ UrlsOf(media) = cat.image_urls
                    /\ \A k \in DOMAIN media : media[k].type \in {"video", "image"}
    /\ (event.name = "openCatModal" /\ event.a \in Ids(allCats)) =>
          LET cat == findCat(allCats, event.a)
              urls == IF cat.image_data # <<>> THEN UrlsOf(cat.image_data)
                      ELSE cat.image_urls
          IN  modalMainMedia.src =
                  IF urls = <<>> THEN PlaceholderUrl ELSE urls[event.b + 1]

\* the modal was opened on the second of two legacy urls of a record
\* without structured media
C11_Witness ==
    /\ allCats[1].image_data = <<>>
    /\ allCats[1].image_urls = <<ImgUrl, UpperUrl>>
    /\ event = Ev("openCatModal", 7, 1)
    /\ modalActive
    /\ modalMainMedia.src = UpperUrl
    /\ modalBody.thumbs = 2

\* the url, ignoring case, ends with a video suffix or has a /video/ segment
C12_ClaimedVideo(url) ==
    LET lower == ToLowerCase(url)
    IN  \/ lower # <<>> /\ lower[Len(lower)] \in {".mp4", ".webm", ".mov"}
        \/ ArrayIncludes(lower, "/video/")

\* C12: a legacy url is inferred as video exactly when, ignoring case, it
\* ends with .mp4, .webm or .mov or contains a /video/ path segment, and
\* as image otherwise; the modal shows it in the matching element.
C12_SuffixInference ==
    (event.name = "openCatModal" /\ event.a \in Ids(allCats)) =>
        LET cat == findCat(allCats, event.a)
            url == cat.image_urls[event.b + 1]
        IN  (cat.image_data = <<>> /\ cat.image_urls # <<>>) =>
              /\ getCatMedia(cat)[event.b + 1].type =
                    IF C12_ClaimedVideo(url) THEN "video" ELSE "image"
              /\ modalMainMedia.tag = "VIDEO" <=> C12_ClaimedVideo(url)

---------------------------------------------------------------------------
(* Claims about page load, under SpecLoad *)

\* record-level plus item-level occurrences of a category name
Occurrences(name) ==
    LET inRecord(i) == {<<i, 0, k>> : k \in {k \in DOMAIN allCats[i].categories :
                                                allCats[i].categories[k] = name}}
        inItem(i, m) == {<<i, m, k>> : k \in {k \in DOMAIN allCats[i].image_data[m].categories :
                                                allCats[i].image_data[m].categories[k] = name}}
    IN  Cardinality(UNION {inRecord(i) \cup UNION {inItem(i, m) : m \in DOMAIN allCats[i].image_data}
                             : i \in DOMAIN allCats})

\* position at which a name is first met while scanning the records
FirstMet(name) ==
    LET tags == categoryTags(allCats)
    IN  CHOOSE i \in DOMAIN tags :
            tags[i] = name /\ \A j \in 1..(i - 1) : tags[j] # name

\* the index has one entry per distinct name, with the count of its
\* occurrences, in descending order of count
C13_CountsAndOrder ==
    fetchState = "ok" =>
        LET index == allCategoriesWithCounts
        IN  /\ {index[i].name : i \in DOMAIN index} = categoryNames(allCats)
            /\ \A i, j \in DOMAIN index : i # j => index[i].name # index[j].name
            /\ \A i \in DOMAIN index : index[i].count = Occurrences(index[i].name)
            /\ \A i, j \in DOMAIN index : i < j => index[i].count >= index[j].count

\* C13: the category index has one entry per distinct name with the count
\* of its record-level and item-level occurrences, ordered by count
\* descending, entries of equal count in the order in which their names
\* were first met while scanning the records, whatever the names look like.
C13_CategoryIndex ==
    /\ C13_CountsAndOrder
    /\ fetchState = "ok" =>
          LET index == allCategoriesWithCounts
          IN  \A i, j \in DOMAIN index :
                (i < j /\ index[i].count = index[j].count)
                    => FirstMet(index[i].name) < FirstMet(index[j].name)

---------------------------------------------------------------------------
(* Claims about the shelves, under SpecShelves *)

\* the records inside the Recent window on the day of the load
RecentIds ==
    {allCats[i].id : i \in {i \in DOMAIN allCats :
        hasCreatedAt(allCats[i]) /\ allCats[i].created_at >= Today - Week}}

FeaturedIds ==
    {allCats[i].id : i \in {i \in DOMAIN allCats : isFeatured(allCats[i])}}

\* a shelf is hidden when it has nothing to show and shows cards otherwise
HiddenWhenEmpty(shelf) ==
    IF shelf.cards = <<>> THEN shelf.display = "none"
    ELSE shelf.display = "block" /\ shelf.html = "cards"

\* the Recent shelf holds the at most RecentCap newest records of the
\* window, newest first; the Popular shelf holds the featured records
ShelvesAsDerived ==
    LET recent == recentCats.cards
        shown == Range(recent)
        created(id) == findCat(allCats, id).created_at
    IN  /\ shown \subseteq RecentIds
        /\ Len(recent) = Cardinality(shown)
        /\ Len(recent) = IF Cardinality(RecentIds) < RecentCap
                          THEN Cardinality(RecentIds) ELSE RecentCap
        /\ \A i, j \in DOMAIN recent : i < j => created(recent[i]) >= created(recent[j])
        /\ \A a \in shown, b \in RecentIds \ shown : created(a) >= created(b)
        /\ HiddenWhenEmpty(recentCats)
        /\ Range(popularCats.cards) = FeaturedIds
        /\ Len(popularCats.cards) = Cardinality(FeaturedIds)
        /\ HiddenWhenEmpty(popularCats)

\* C14: in every state after a successful fetch the Recent shelf holds
\* exactly the at most 8 newest records of the last 7 days, newest first,
\* the Popular shelf exactly the featured records, each hidden when empty;
\* no search, category or view-mode action changes either shelf.
C14_Shelves ==
    /\ [](fetchState = "ok" => ShelvesAsDerived)
    /\ [][event'.name \in {"input", "timer", "category", "viewMode"}
            => UNCHANGED <<recentCats, popularCats>>]_vars

\* ten records are inside the window, the shelf shows eight of them, and a
\* search has since narrowed the grid
C14_Witness ==
    /\ fetchState = "ok"
    /\ Cardinality(RecentIds) = 10
    /\ Len(recentCats.cards) = RecentCap
    /\ popularCats.display = "block"
    /\ event.name = "timer"
    /\ currentViewMode = "individual"
    /\ selectedCategories # {}
    /\ Len(shownCats) < Len(allCats)

---------------------------------------------------------------------------
(* Claims about a page session, under SpecSession *)

\* after a failed fetch: the regions carry the inline error, the record
\* collection and everything derived from it are empty, and db.selectAll()
\* is not called again
FailedFetchHandled ==
    /\ [](event.name = "fetchFail" => catsGrid.state = "error")
    /\ [](fetchState = "failed" =>
            /\ recentCats.html = "error" /\ recentCats.display # "none"
            /\ popularCats.html = "error" /\ popularCats.display # "none"
            /\ allCats = <<>> /\ shownCats = <<>>
            /\ catsGrid.cards = <<>> /\ catCount.n = 0
            /\ allCategoriesWithCounts = <<>>
            /\ categoryFilters = [state |-> "none", names |-> <<>>])
    /\ [][fetchState = "failed" => fetchState' = "failed"]_vars

\* C15 as stated: after a failed fetch the grid and both shelves show an
\* inline error, the collection and all that is derived from it stay
\* empty, no later event fetches again, and all listeners are installed.
C15_Original ==
    /\ FailedFetchHandled
    /\ [](fetchState = "failed" => ready /\ categorySearchReady)

\* C15 as amended: the same, where the listeners installed are the four of
\* the DOMContentLoaded handler (search input, keydown, touch, popstate);
\* the listener of the category search box is not installed, the category
\* index being empty.
C15_FailedFetch ==
    /\ FailedFetchHandled
    /\ [](fetchState = "failed" => ready /\ ~categorySearchReady)

\* after the failure a search ran on the empty collection and text typed
\* into the category search box found no listener
C15_Witness ==
    /\ fetchState = "failed"
    /\ event = Ev("categorySearch", 0, 0)
    /\ catsGrid.state = "empty"
    /\ catCount = [n |-> 0, noun |-> "photos"]
    /\ searchInput # <<>> /\ ~debounceTimer

---------------------------------------------------------------------------
(* Claims about a page session with the modal, under SpecPage *)

\* C16: once the fetch has resolved, no step of the page (search, category
\* toggle, view-mode switch, category search, modal open, thumbnail
\* selection, any way of closing) changes allCats or a record or media
\* item in it: the list stays what the store returned.
C16_RecordsNeverChange ==
    /\ [][fetchState # "pending" => allCats' = allCats]_vars
    /\ [][event'.name = "fetchOk" => allCats' \in StoreResults]_vars
    /\ [](fetchState = "ok" => allCats \in StoreResults)

\* the grid was narrowed by a category, a thumbnail with its own description
\* is shown in the modal, and the records are as returned
C16_Witness ==
    /\ allCats = <<Cat3, Cat5>>
    /\ selectedCategories = {"cute"} /\ shownCats = <<Cat3>>
    /\ modalActive /\ modalBody.catId = 3 /\ modalBody.active = 1
    /\ event.name = "changeModalMedia"

---------------------------------------------------------------------------
(* Claims about the navigation checkpoint, under SpecModal *)

\* C17: whenever the modal is closed and no history.back() of closeModal
\* is outstanding, the checkpoints pushed equal those released: the
\* current history entry is the page's own and carries no modalOpen marker.
C17_CheckpointsBalanced ==
    (OnPage /\ ~modalActive /\ pendingBack = 0) =>
        /\ historyIndex = 1
        /\ historyEntries[historyIndex] = "null"

\* C18: the popstate of a history.back() issued by closeModal never closes
\* a modal: one that is open when it is delivered was opened after that
\* call and stays open.
C18_StalePopstate ==
    (event.name = "historyBack" /\ event.a = 1) => modalActive

---------------------------------------------------------------------------
(* Claims about the grid, under SpecSession *)

\* C19: whenever the fetch has succeeded and no debounce timer is pending,
\* the grid shows the records that pass the selected categories and the
\* current text of the search box, in the current view mode.
C19_GridFollowsInputs ==
    (fetchState = "ok" /\ liveTimers = 0) =>
        /\ shownCats = filtered(allCats, selectedCategories, searchInput)
        /\ catsGrid = renderCats(shownCats, currentViewMode).grid
        /\ catCount = renderCats(shownCats, currentViewMode).count

=============================================================================
